---- MODULE Spec2Model ----
(***************************************************************************)
(* Model of the back-testing core of stock_v1:                             *)
(*   matching_engine.py  (Order, MatchingEngine)                           *)
(*   backtest_engine.py  (BacktestEngine: ledger and simulation loop)      *)
(*   performance_analyzer.py, examples/simple_ma_strategy.py, db_module.py *)
(*                                                                         *)
(* Numbers.  The program computes with Python floats; the model computes   *)
(* with exact fixed-point and rational numbers.  Rates are numerators over *)
(* RateScale, prices are integers in units of 1/RateScale, money amounts   *)
(* are integers in units of 1/RateScale^2, and the quantities the code     *)
(* obtains by division (avg_price, market_value, total_equity, pnl,        *)
(* pnl_percentage) are reduced fractions [n, d].                           *)
(*                                                                         *)
(* Objects.  Order objects live in the heap `orders` (a sequence, indexed  *)
(* by creation order); the order book and results["orders"] hold indices   *)
(* into it, as the Python lists hold references to the same objects.       *)
(*                                                                         *)
(* Configuration.  initialize() ends its checks with                       *)
(* get_config().validate_param_consistency(...).  The class ConfigManager  *)
(* of config_manager.py defines no such method, so with the configuration  *)
(* object of the repository the call raises AttributeError.  The model     *)
(* keeps both kinds of object: config.validates is FALSE for the           *)
(* ConfigManager of the repository and TRUE for a configuration object     *)
(* that provides the method and accepts the data; only with the latter     *)
(* does a run get past initialize().                                       *)
(*                                                                         *)
(* Clock and random source.  datetime.now() and uuid.uuid4() are read      *)
(* once per run() call: every reading inside one run returns the value     *)
(* drawn when the run began, and two runs may draw different values.       *)
(***************************************************************************)
EXTENDS Integers, Sequences, FiniteSets, TLC

VARIABLES
    config,        \* the object get_config() returns
    params,        \* BacktestEngine.params
    me_params,     \* MatchingEngine.params
    status,        \* BacktestEngine.status
    account,       \* BacktestEngine.account
    results,       \* BacktestEngine.results
    order_counter, \* BacktestEngine.order_counter
    strategy,      \* the strategy object: its status and the signals it returns per bar
    orders,        \* heap of Order objects
    order_book,    \* MatchingEngine.order_book (indices into orders)
    me_trades,     \* MatchingEngine.trades
    pc,            \* position of the caller inside BacktestEngine.run
    next_step,     \* the iterator of run's for-loop
    pending,       \* signals of the current bar not yet executed
    data,          \* BacktestEngine.data: the loaded bars
    now,           \* wall clock (datetime.now())
    rng,           \* random source (uuid.uuid4())
    last_call,     \* history: what the last operation was and what it returned
    prev_run,      \* history: results of the last completed run that started from reset()
    runs,          \* history: number of run() calls made, and since the last reset()
    bar_log,       \* history: the bars of the current run, one entry per call of
                   \* strategy.generate_signals, with the account after the bar
    db             \* a DatabaseManager: its connection pool, the connections, the
                   \* table they share, and what its callers hold

vars == <<config, params, me_params, status, account, results, order_counter, strategy,
          orders, order_book, me_trades, pc, next_step, pending, data, now, rng,
          last_call, prev_run, runs, bar_log, db>>

be_vars == <<config, params, status, account, results, order_counter, strategy,
             pc, next_step, pending, prev_run, runs, bar_log, db>>

\* everything but the DatabaseManager
engine_vars == <<config, params, me_params, status, account, results, order_counter,
                 strategy, orders, order_book, me_trades, pc, next_step, pending, data,
                 now, rng, last_call, prev_run, runs, bar_log>>

----------------------------------------------------------------------------
(* Bounds of the model *)

NBars == 2          \* bars in the loaded data
MaxSignals == 2     \* signals a strategy returns for one bar
MaxOrderCount == 3  \* create_order calls per reset
MaxRuns == 2        \* run() calls in a behaviour
MaxClock == 1       \* distinct readings of the wall clock after the first
MaxUuid == 2        \* distinct random order-id suffixes
MaxHeap == 4        \* Order objects handed to a stand-alone matching engine
MaxPrice == 2       \* raw prices are 1..MaxPrice
MaxVolume == 2      \* volumes are 1..MaxVolume

InitialCash == 5    \* params["initial_cash"], in raw price units
SmallCash == 24     \* a small initial_cash, in tenths of a raw price unit
MaxCashExtra == 2   \* and the hundredths added to it
MaxConnections == 1 \* DatabaseManager(db_path, max_connections=1), the default
MaxConnIds == 3     \* connections created in a behaviour
MaxCallers == 2     \* threads calling the DatabaseManager
MABars == 4         \* bars in the data a SimpleMAStrategy is run on
MAShort == 1        \* SimpleMAStrategy.params["ma_short"]
MALong == 2         \* SimpleMAStrategy.params["ma_long"]
MaxEquity == 3      \* total_equity of a sample handed to the metrics is 1..MaxEquity
MaxSamples == 4     \* samples in an account history handed to the metrics

RateScale == 10     \* rates are k/RateScale
TransactionCostRate == 1  \* params["transaction_cost"] * RateScale
SlippageRate == 1         \* params["slippage"] * RateScale
StampTaxRate == 1         \* params["stamp_tax"] * RateScale
MaxPositionRate == 5      \* params["max_position_percentage"] * RateScale

Symbols == {"A", "B"}
BarSymbol == "A"    \* the 'code' column of the loaded data
Actions == {"buy", "sell"}
OrderTypes == {"market", "limit"}
RawPrices == 1..MaxPrice
Prices == {p * RateScale : p \in RawPrices}
Volumes == 1..MaxVolume

None == 0 - 1       \* Python's None where a number is expected

----------------------------------------------------------------------------
(* Exact arithmetic *)

Abs(x) == IF x < 0 THEN 0 - x ELSE x

Min(a, b) == IF a <= b THEN a ELSE b

RECURSIVE GCD(_, _)
GCD(a, b) == IF b = 0 THEN a ELSE GCD(b, a % b)

\* the fraction n/d in lowest terms, d > 0
Rat(n, d) ==
    LET g == GCD(Abs(n), Abs(d))
        s == IF d < 0 THEN 0 - 1 ELSE 1
    IN  [n |-> s * (n \div g), d |-> s * (d \div g)]

RatInt(i) == [n |-> i, d |-> 1]
RatAdd(x, y) == Rat(x.n * y.d + y.n * x.d, x.d * y.d)
RatSub(x, y) == Rat(x.n * y.d - y.n * x.d, x.d * y.d)
RatScale(x, k) == Rat(x.n * k, x.d)
RatDivInt(x, k) == Rat(x.n, x.d * k)
RatMul(x, y) == Rat(x.n * y.n, x.d * y.d)
RatDiv(x, y) == Rat(x.n * y.d, x.d * y.n)
RatLess(x, y) == x.n * y.d < y.n * x.d
RatMax(x, y) == IF RatLess(x, y) THEN y ELSE x
RatMin(x, y) == IF RatLess(y, x) THEN y ELSE x

\* round(x, 2) as a number of hundredths, ties to the even neighbour
Round2(x) ==
    LET n == x.n * 100
        f == n \div x.d
        rem == n - f * x.d
    IN  IF 2 * rem < x.d THEN f
        ELSE IF 2 * rem > x.d THEN f + 1
        ELSE IF f % 2 = 0 THEN f ELSE f + 1

\* a pop that leaves the list as it was
RemoveAt_Keep(s, i) == s

\* s without its i-th element
RemoveAt(s, i) == SubSeq(s, 1, i - 1) \o SubSeq(s, i + 1, Len(s))

\* list.remove(x): drop the first occurrence of x
RECURSIVE ListRemove(_, _)
ListRemove(s, x) ==
    IF s = <<>> THEN s
    ELSE IF Head(s) = x THEN Tail(s)
    ELSE <<Head(s)>> \o ListRemove(Tail(s), x)

----------------------------------------------------------------------------
(* matching_engine.py *)

\* Order.__init__
NewOrder(order_id, symbol, action, price, volume, order_type, timestamp) ==
    [order_id |-> order_id, symbol |-> symbol, action |-> action,
     price |-> price, volume |-> volume, order_type |-> order_type,
     timestamp |-> timestamp, status |-> "pending", filled_volume |-> 0,
     filled_price |-> 0, transaction_cost |-> 0, slippage |-> 0,
     fill_time |-> None]

\* list.sort(key=...) is a stable ascending sort on the key: insert x behind
\* every element whose key is not greater than its own.
RECURSIVE StableInsert(_, _, _)
StableInsert(sorted, x, key) ==
    IF sorted = <<>> THEN <<x>>
    ELSE IF key[x] < key[Head(sorted)] THEN <<x>> \o sorted
    ELSE <<Head(sorted)>> \o StableInsert(Tail(sorted), x, key)

RECURSIVE StableSort(_, _)
StableSort(s, key) ==
    IF s = <<>> THEN <<>>
    ELSE StableInsert(StableSort(SubSeq(s, 1, Len(s) - 1), key), s[Len(s)], key)

\* MatchingEngine.sort_order_book: buys by price descending (reverse=True keeps
\* equal keys in their original order), sells by price ascending
sort_order_book(heap, book) ==
    LET asc == [i \in DOMAIN heap |-> heap[i].price]
        desc == [i \in DOMAIN heap |-> 0 - heap[i].price]
    IN  [buy |-> StableSort(book.buy, desc), sell |-> StableSort(book.sell, asc)]

\* the state of a MatchingEngine together with the Order objects it refers to
MEState(heap, book, trades) == [orders |-> heap, order_book |-> book, trades |-> trades]

\* slippage = order.price * self.params["slippage"]
SlippageOf(order, mp) == (order.price * mp.slippage) \div RateScale

\* a market order filled at its own price
MarketFillPrice_Flat(order, mp) == order.price

\* match_market_order: buys fill above the order price, everything else below
MarketFillPrice(order, mp) ==
    IF order.action = "buy" THEN order.price + SlippageOf(order, mp)
    ELSE order.price - SlippageOf(order, mp)

\* transaction_cost = fill_price * volume * self.params["transaction_cost"]
TransactionCost(fill_price, volume, mp) == fill_price * volume * mp.transaction_cost

\* MatchingEngine.match_market_order(order), the clock reading t
match_market_order(me, i, mp, t) ==
    LET order == me.orders[i]
        fill_price == MarketFillPrice(order, mp)
        cost == TransactionCost(fill_price, order.volume, mp)
        filled == [order EXCEPT !.status = "filled",
                                !.filled_volume = order.volume,
                                !.filled_price = fill_price,
                                !.transaction_cost = cost,
                                !.slippage = SlippageOf(order, mp),
                                !.fill_time = t]
        trade == [trade_id |-> <<t>>, order_id |-> order.order_id,
                  symbol |-> order.symbol, action |-> order.action,
                  price |-> fill_price, volume |-> order.volume,
                  transaction_cost |-> cost, slippage |-> SlippageOf(order, mp),
                  timestamp |-> t, order_type |-> order.order_type]
    IN  [me |-> MEState([me.orders EXCEPT ![i] = filled], me.order_book,
                        Append(me.trades, trade)),
         kind |-> "dict", trades |-> <<trade>>, matched |-> <<>>]

\* the condition under which the loop of match_limit_order fills against a
\* resting order (lines 191 and 245)
Crosses(order, resting) ==
    IF order.action = "buy" THEN resting.price <= order.price
    ELSE resting.price >= order.price

\* a match at the incoming order's own limit price
LimitFillPrice_Own(order, resting) == order.price

\* fill_price = sell_order.price / buy_order.price (lines 196 and 250)
LimitFillPrice(order, resting) == resting.price

\* the opposite side of the book
OppositeSide(action) == IF action = "buy" THEN "sell" ELSE "buy"

\* The for-loop of match_limit_order over self.order_book[opposite].  Python
\* iterates a list by position: the k-th iteration reads the element at
\* position k of the list as it is then, so the remove() inside the body
\* shifts the rest of the list under the iterator.
\* s = [orders, opp, i, remaining, trades, all_trades, matched]
RECURSIVE MatchLoop(_, _, _, _)
MatchLoop(s, k, mp, t) ==
    IF k > Len(s.opp) THEN s
    ELSE
      LET j == s.opp[k]
          order == s.orders[s.i]
          resting == s.orders[j]
      IN  IF Crosses(order, resting) /\ s.remaining > 0
          THEN
            LET fill_volume == Min(s.remaining, resting.volume - resting.filled_volume)
                fill_price == LimitFillPrice(order, resting)
                cost == TransactionCost(fill_price, fill_volume, mp)
                order2 == [order EXCEPT !.filled_volume = @ + fill_volume,
                                        !.filled_price = fill_price,
                                        !.transaction_cost = @ + cost]
                resting2 == [resting EXCEPT !.filled_volume = @ + fill_volume,
                                            !.filled_price = fill_price,
                                            !.transaction_cost = @ + cost]
                done == resting2.filled_volume >= resting2.volume
                resting3 == IF done THEN [resting2 EXCEPT !.status = "filled", !.fill_time = t]
                            ELSE resting2
                trade == [trade_id |-> <<t, Len(s.trades)>>, order_id |-> order.order_id,
                          symbol |-> order.symbol, action |-> order.action,
                          price |-> fill_price, volume |-> fill_volume,
                          transaction_cost |-> cost, slippage |-> None,
                          timestamp |-> t, order_type |-> order.order_type]
            IN  MatchLoop([s EXCEPT !.orders = [s.orders EXCEPT ![s.i] = order2, ![j] = resting3],
                                    !.opp = IF done THEN ListRemove(s.opp, j) ELSE s.opp,
                                    !.remaining = @ - fill_volume,
                                    !.trades = Append(@, trade),
                                    !.all_trades = Append(@, trade),
                                    !.matched = Append(@, j)],
                          k + 1, mp, t)
          ELSE MatchLoop(s, k + 1, mp, t)

\* the status the incoming order gets after the loop (lines 234-241, 288-295)
IncomingStatus(order) ==
    IF order.filled_volume > 0
    THEN IF order.filled_volume >= order.volume THEN "filled" ELSE "partially_filled"
    ELSE order.status

\* MatchingEngine.match_limit_order(order); the order is already in the book
match_limit_order(me, i, mp, t) ==
    LET side == me.orders[i].action
        opp == OppositeSide(side)
        s == MatchLoop([orders |-> me.orders, opp |-> me.order_book[opp], i |-> i,
                        remaining |-> me.orders[i].volume, trades |-> <<>>,
                        all_trades |-> me.trades, matched |-> <<>>], 1, mp, t)
        order == s.orders[i]
        full == order.filled_volume > 0 /\ order.filled_volume >= order.volume
        order2 == [order EXCEPT !.status = IncomingStatus(order),
                                !.fill_time = IF full THEN t ELSE @]
        book == [x \in {"buy", "sell"} |->
                    IF x = opp THEN s.opp
                    ELSE IF full THEN ListRemove(me.order_book[side], i)
                    ELSE me.order_book[side]]
    IN  [me |-> MEState([s.orders EXCEPT ![i] = order2], book, s.all_trades),
         kind |-> "list", trades |-> s.trades, matched |-> s.matched]

\* MatchingEngine.add_order(order)
add_order(me, i, mp, t) ==
    LET order == me.orders[i]
    IN  IF order.order_type = "market" THEN match_market_order(me, i, mp, t)
        ELSE IF order.order_type = "limit"
        THEN LET appended == [me.order_book EXCEPT ![order.action] = Append(@, i)]
                 sorted == sort_order_book(me.orders, appended)
             IN  match_limit_order(MEState(me.orders, sorted, me.trades), i, mp, t)
        ELSE [me |-> me, kind |-> "none", trades |-> <<>>, matched |-> <<>>]

\* position of the first order with this order_id in a book side, 0 if none
RECURSIVE FindOrder(_, _, _, _)
FindOrder(heap, side, order_id, k) ==
    IF k > Len(side) THEN 0
    ELSE IF heap[side[k]].order_id = order_id THEN k
    ELSE FindOrder(heap, side, order_id, k + 1)

\* a cancel_order that puts the order back to pending
CancelledStatus_Pending(order) == "pending"

\* the status cancel_order gives the order it found
CancelledStatus(order) == "cancelled"

\* MatchingEngine.cancel_order(order_id): the buy side is searched first
cancel_order(me, order_id) ==
    LET kb == FindOrder(me.orders, me.order_book.buy, order_id, 1)
        ks == FindOrder(me.orders, me.order_book.sell, order_id, 1)
        side == IF kb > 0 THEN "buy" ELSE "sell"
        k == IF kb > 0 THEN kb ELSE ks
    IN  IF k = 0 THEN [me |-> me, ret |-> FALSE]
        ELSE LET i == me.order_book[side][k]
             IN  [me |-> MEState([me.orders EXCEPT ![i].status = CancelledStatus(me.orders[i])],
                                 [me.order_book EXCEPT ![side] = RemoveAt(@, k)],
                                 me.trades),
                  ret |-> TRUE]

\* a reset that clears the book and keeps the trade list
me_reset_KeepTrades(me) == MEState(me.orders, [buy |-> <<>>, sell |-> <<>>], me.trades)

\* MatchingEngine.reset()
me_reset(me) == MEState(me.orders, [buy |-> <<>>, sell |-> <<>>], <<>>)

----------------------------------------------------------------------------
(* backtest_engine.py: the ledger *)

\* price * volume as a money amount
Notional(price, volume) == price * volume * RateScale

\* the empty dict of positions
NoPositions == [x \in {} |-> 0]

\* the account of __init__ and reset()
FreshAccount(p) ==
    [cash |-> p.initial_cash, total_equity |-> RatInt(p.initial_cash),
     positions |-> NoPositions, frozen_cash |-> 0,
     pnl |-> RatInt(0), pnl_percentage |-> RatInt(0)]

\* the dict self.account["positions"] with one key set / deleted
SetPosition(positions, symbol, pos) ==
    [x \in (DOMAIN positions) \cup {symbol} |-> IF x = symbol THEN pos ELSE positions[x]]

DelPosition(positions, symbol) ==
    [x \in (DOMAIN positions) \ {symbol} |-> positions[x]]

\* a ledger that forgets the transaction cost of a buy
BuyTotalCost_NoFee(trade) == Notional(trade.price, trade.volume)

\* total_cost of a buy (line 583)
BuyTotalCost(trade) == Notional(trade.price, trade.volume) + trade.transaction_cost

\* total_revenue of a sell (lines 611-615)
SellTotalRevenue(trade, p) ==
    Notional(trade.price, trade.volume)
        - (trade.transaction_cost + trade.price * trade.volume * p.stamp_tax)

\* BacktestEngine.update_account(trade, action)
update_account(acct, trade, action, p) ==
    LET symbol == trade.symbol
        price == trade.price
        volume == trade.volume
        positions == acct.positions
    IN  IF action = "buy"
        THEN LET pos == IF symbol \in DOMAIN positions
                        THEN LET cur == positions[symbol]
                                 new_volume == cur.volume + volume
                             IN  [volume |-> new_volume,
                                  avg_price |-> RatDivInt(RatAdd(RatScale(cur.avg_price, cur.volume),
                                                                 RatInt(price * volume)),
                                                          new_volume),
                                  market_value |-> RatInt(Notional(price, new_volume))]
                        ELSE [volume |-> volume, avg_price |-> RatInt(price),
                              market_value |-> RatInt(Notional(price, volume))]
             IN  [acct EXCEPT !.cash = @ - BuyTotalCost(trade),
                              !.positions = SetPosition(positions, symbol, pos)]
        ELSE IF action = "sell"
        THEN LET positions2 ==
                    IF symbol \in DOMAIN positions
                    THEN IF positions[symbol].volume <= volume
                         THEN DelPosition(positions, symbol)
                         ELSE LET new_volume == positions[symbol].volume - volume
                              IN  SetPosition(positions, symbol,
                                      [volume |-> new_volume,
                                       avg_price |-> positions[symbol].avg_price,
                                       market_value |-> RatInt(Notional(price, new_volume))])
                    ELSE positions
             IN  [acct EXCEPT !.cash = @ + SellTotalRevenue(trade, p),
                              !.positions = positions2]
        ELSE acct

\* the sum of market_value over the positions with a symbol in S
RECURSIVE MarketValueSum(_, _)
MarketValueSum(positions, S) ==
    IF S = {} THEN RatInt(0)
    ELSE LET x == CHOOSE y \in S : TRUE
         IN  RatAdd(positions[x].market_value, MarketValueSum(positions, S \ {x}))

\* a mark-to-market that never looks at the bar
MarkPrice_AvgOnly(symbol, position, bar) == position.avg_price

\* the price update_account_equity marks a position at (lines 647-651)
MarkPrice(symbol, position, bar) ==
    IF symbol = bar.code THEN RatInt(bar.close) ELSE position.avg_price

\* BacktestEngine.update_account_equity(current_data)
update_account_equity(acct, bar, p) ==
    LET marked == [x \in DOMAIN acct.positions |->
                      [acct.positions[x] EXCEPT
                          !.market_value = RatScale(MarkPrice(x, acct.positions[x], bar),
                                                    acct.positions[x].volume * RateScale)]]
        total_market_value == MarketValueSum(marked, DOMAIN marked)
        total_equity == RatAdd(RatInt(acct.cash), total_market_value)
        pnl == RatSub(total_equity, RatInt(p.initial_cash))
    IN  [acct EXCEPT !.positions = marked,
                     !.total_equity = total_equity,
                     !.pnl = pnl,
                     !.pnl_percentage = RatDivInt(RatScale(pnl, 100), p.initial_cash)]

\* the row self.data.iloc[step] (step counts from 0)
Bar(d, step) == [date |-> step + 1, code |-> BarSymbol, close |-> d.close[step + 1]]

\* current_data.get("date", current_data.get("datetime", datetime.now()))
BarTimestamp(d, step) == step + 1

\* the timestamp record_account_state stamps a sample with (line 671)
SampleTimestamp(st, d, t) ==
    IF st.current_step < st.total_steps
    THEN IF d.date_col = "date" THEN BarTimestamp(d, st.current_step) ELSE t
    ELSE t

\* BacktestEngine.record_account_state().  The positions copy is shallow: its
\* keys are a snapshot, its values stay the live position dicts, so the model
\* keeps the keys only.
record_account_state(res, acct, st, d, t) ==
    [res EXCEPT
        !.account_history = Append(@, [timestamp |-> SampleTimestamp(st, d, t),
                                       cash |-> acct.cash,
                                       total_equity |-> acct.total_equity,
                                       pnl |-> acct.pnl,
                                       pnl_percentage |-> acct.pnl_percentage]),
        !.positions_history = Append(@, [timestamp |-> SampleTimestamp(st, d, t),
                                         positions |-> DOMAIN acct.positions])]

\* the results dict of __init__ and reset()
FreshResults ==
    [orders |-> <<>>, trades |-> <<>>, signals |-> <<>>,
     account_history |-> <<>>, positions_history |-> <<>>]

\* the status dict reset() builds
FreshStatus(d) ==
    [initialized |-> FALSE, running |-> FALSE, completed |-> FALSE,
     current_step |-> 0, total_steps |-> Len(d.close)]

----------------------------------------------------------------------------
(* backtest_engine.py: orders *)

\* price and volume of the order for a signal (lines 503-515)
SignalPrice(signal, bar) == IF signal.price = None THEN bar.close ELSE signal.price

\* BaseStrategy.calculate_position_size(context, price):
\* max(int(cash * max_position_percentage / (price * (1 + cost + slippage))), 0)
calculate_position_size(acct, price, p) ==
    LET q == (acct.cash * p.max_position_percentage)
                 \div (RateScale * price * (RateScale + p.transaction_cost + p.slippage))
    IN  IF q > 0 THEN q ELSE 0

SignalVolume(signal, acct, price, p) ==
    IF signal.volume = None THEN calculate_position_size(acct, price, p)
    ELSE signal.volume

\* required_cash = price * volume * (1 + transaction_cost + slippage)
RequiredCash(price, volume, p) ==
    price * volume * (RateScale + p.transaction_cost + p.slippage)

\* a create_order without the funds check
FundsOk_Skipped(signal, price, volume, acct, p) == TRUE

\* the funds check of create_order (lines 518-522)
FundsOk(signal, price, volume, acct, p) ==
    signal.action = "buy" => ~(RequiredCash(price, volume, p) > acct.cash)

\* a create_order without the holdings check
HoldingsOk_Skipped(signal, volume, acct) == TRUE

\* the holdings check of create_order (lines 525-529)
HoldingsOk(signal, volume, acct) ==
    signal.action = "sell" =>
        ~(signal.symbol \notin DOMAIN acct.positions
          \/ acct.positions[signal.symbol].volume < volume)

\* a create_order that numbers every order 1
create_order_SameCounter(signal, bar, acct, p, counter, u) ==
    LET price == SignalPrice(signal, bar)
        volume == SignalVolume(signal, acct, price, p)
    IN  IF FundsOk(signal, price, volume, acct, p) /\ HoldingsOk(signal, volume, acct)
        THEN [ok |-> TRUE,
              order |-> NewOrder(<<1, u>>, signal.symbol, signal.action, price,
                                 volume, signal.order_type, bar.date)]
        ELSE [ok |-> FALSE]

\* a create_order that checks against the account as it was at reset
create_order_Stale(signal, bar, acct, p, counter, u) ==
    LET price == SignalPrice(signal, bar)
        volume == SignalVolume(signal, FreshAccount(p), price, p)
    IN  IF FundsOk(signal, price, volume, FreshAccount(p), p)
           /\ HoldingsOk(signal, volume, FreshAccount(p))
        THEN [ok |-> TRUE,
              order |-> NewOrder(<<counter, u>>, signal.symbol, signal.action, price,
                                 volume, signal.order_type, bar.date)]
        ELSE [ok |-> FALSE]

\* BacktestEngine.create_order(signal, current_data); counter is the value of
\* order_counter after the increment of line 501, u the random suffix
create_order(signal, bar, acct, p, counter, u) ==
    LET price == SignalPrice(signal, bar)
        volume == SignalVolume(signal, acct, price, p)
    IN  IF FundsOk(signal, price, volume, acct, p) /\ HoldingsOk(signal, volume, acct)
        THEN [ok |-> TRUE,
              order |-> NewOrder(<<counter, u>>, signal.symbol, signal.action, price,
                                 volume, signal.order_type, bar.date)]
        ELSE [ok |-> FALSE]

\* the loop of process_trade_results over the ledger
\* new_avg_price = (...) / new_volume (line 594) divides by zero when a buy of
\* volume 0 meets a position of volume 0: update_account raises
\* ZeroDivisionError after it has taken total_cost from the cash (line 586)
ZeroDivision(acct, trade, action) ==
    /\ action = "buy"
    /\ trade.symbol \in DOMAIN acct.positions
    /\ acct.positions[trade.symbol].volume + trade.volume = 0

\* the loop of process_trade_results over the ledger: the account it leaves,
\* the number of trades it has recorded, and whether update_account raised
RECURSIVE ApplyTrades(_, _, _, _)
ApplyTrades(acct, trades, action, p) ==
    IF trades = <<>> THEN [acct |-> acct, applied |-> 0, raised |-> FALSE]
    ELSE IF ZeroDivision(acct, Head(trades), action)
    THEN [acct |-> [acct EXCEPT !.cash = @ - BuyTotalCost(Head(trades))],
          applied |-> 0, raised |-> TRUE]
    ELSE LET r == ApplyTrades(update_account(acct, Head(trades), action, p),
                              Tail(trades), action, p)
         IN  [r EXCEPT !.applied = @ + 1]

\* trade["timestamp"] = current_data.get("date", ...) (line 563)
Restamp(trades, bar) == [k \in DOMAIN trades |-> [trades[k] EXCEPT !.timestamp = bar.date]]

\* The trade dicts returned by add_order are the dicts in MatchingEngine.trades:
\* restamping the first n of them changes those entries of that list as well.
RestampTail(all, trades, n, bar) ==
    SubSeq(all, 1, Len(all) - Len(trades))
        \o Restamp(SubSeq(trades, 1, n), bar)
        \o SubSeq(trades, n + 1, Len(trades))

\* the guard `if trade_results:` (line 486)
Truthy(r) == r.kind = "dict" \/ (r.kind = "list" /\ r.trades # <<>>)

----------------------------------------------------------------------------
(* Inputs *)

\* what a strategy may return: market and limit orders on both symbols, priced
\* explicitly or at the close of the bar
Signals ==
    [symbol : {BarSymbol}, action : Actions, price : {None},
     volume : Volumes, order_type : {"market"}]
    \cup [symbol : {BarSymbol}, action : Actions, price : {MaxPrice * RateScale},
          volume : {1}, order_type : {"limit"}]
    \cup [symbol : Symbols \ {BarSymbol}, action : Actions, price : {None},
          volume : {1}, order_type : {"market"}]
    \cup [symbol : {BarSymbol}, action : Actions, price : {None},
          volume : {None}, order_type : {"market"}]

SignalLists(n) == UNION {[1..k -> Signals] : k \in 0..n}

\* the loaded data: one close per bar, rows sorted by their 'date' column
DataSets ==
    {[close |-> [b \in 1..NBars |-> IF b % 2 = 1 THEN MaxPrice * RateScale ELSE RateScale],
      date_col |-> "date"]}

\* the orders a caller hands to a matching engine used on its own
MEOrders ==
    [symbol : {BarSymbol}, action : Actions, price : Prices,
     volume : Volumes, order_type : {"limit"}]
    \cup [symbol : {BarSymbol}, action : {"buy"}, price : {RateScale},
          volume : {1}, order_type : {"market"}]
    \cup [symbol : Symbols \ {BarSymbol}, action : {"sell"}, price : {RateScale},
          volume : {1}, order_type : {"limit"}]

MaxNow == NBars + 1 + MaxClock

\* the values a reading of the clock can return
ClockReadings == now..MaxNow

----------------------------------------------------------------------------
(* db_module.py: DatabaseConnectionPool and DatabaseManager *)

Callers == 1..MaxCallers
ConnIds == 1..MaxConnIds
Emails == {"a", "b"}   \* values of the UNIQUE column of the table

NoTransaction == [active |-> FALSE, rows |-> {}]
NoHistory == [before |-> {}, written |-> {}, failed |-> FALSE]

\* DatabaseManager.__init__ / DatabaseConnectionPool.__init__: the pool is
\* filled with max_connections connections; the table exists and is empty
FreshDb ==
    [pool |-> [k \in 1..MaxConnections |-> k],
     open |-> 1..MaxConnections,
     created |-> MaxConnections,
     held |-> [c \in Callers |-> 0],
     table |-> {},
     tx |-> [k \in ConnIds |-> NoTransaction],
     began |-> [c \in Callers |-> NoHistory],
     last |-> [op |-> "construct"]]

\* DatabaseConnectionPool.get_connection(): the connection at the head of the
\* queue, or, when the queue stays empty for the 5 seconds of the timeout, a
\* new connection from _create_connection()
get_connection(d) ==
    IF d.pool # <<>>
    THEN [conn |-> Head(d.pool), db |-> [d EXCEPT !.pool = Tail(@)]]
    ELSE [conn |-> d.created + 1,
          db |-> [d EXCEPT !.created = @ + 1, !.open = @ \cup {d.created + 1}]]

\* get_connection can return: the queue holds a connection, or the model may
\* still create one
CanGet(d) == d.pool # <<>> \/ d.created < MaxConnIds

\* DatabaseConnectionPool.release_connection(conn): put, or close the
\* connection when the queue is full (queue.Full after the timeout)
release_connection(d, conn) ==
    IF Len(d.pool) < MaxConnections
    THEN [d EXCEPT !.pool = Append(@, conn)]
    ELSE [d EXCEPT !.open = @ \ {conn}]

\* another connection holds uncommitted rows: sqlite refuses the write
\* (database is locked)
Locked(d, conn) == \E k \in ConnIds : k # conn /\ d.tx[k].rows # {}

\* a caller takes a connection from the pool
GetConnection ==
    /\ \E c \in Callers :
         /\ db.held[c] = 0
         /\ CanGet(db)
         /\ LET g == get_connection(db)
            IN  db' = [g.db EXCEPT !.held[c] = g.conn,
                                   !.last = [op |-> "get_connection", caller |-> c,
                                             conn |-> g.conn]]
    /\ UNCHANGED engine_vars

\* a caller gives back the connection it took
ReleaseConnection ==
    /\ \E c \in Callers :
         /\ db.held[c] # 0
         /\ ~db.tx[db.held[c]].active
         /\ db' = [release_connection(db, db.held[c]) EXCEPT
                       !.held[c] = 0,
                       !.last = [op |-> "release_connection", caller |-> c,
                                 conn |-> db.held[c]]]
    /\ UNCHANGED engine_vars

\* DatabaseManager.begin_transaction()
BeginTransaction ==
    /\ \E c \in Callers :
         /\ db.held[c] = 0
         /\ CanGet(db)
         /\ LET g == get_connection(db)
            IN  db' = [g.db EXCEPT !.held[c] = g.conn,
                                   !.tx[g.conn] = [active |-> TRUE, rows |-> {}],
                                   !.began[c] = [before |-> db.table, written |-> {},
                                                 failed |-> FALSE],
                                   !.last = [op |-> "begin_transaction", caller |-> c,
                                             conn |-> g.conn]]
    /\ UNCHANGED engine_vars

\* cursor.execute("INSERT ...") on the connection of an open transaction: the
\* statement fails on a duplicate of the UNIQUE column or on a locked
\* database, and then writes nothing
TxInsert ==
    /\ \E c \in Callers, e \in Emails :
         LET conn == db.held[c]
         IN  /\ conn # 0
             /\ db.tx[conn].active
             /\ IF e \in db.table \cup db.tx[conn].rows \/ Locked(db, conn)
                THEN db' = [db EXCEPT !.began[c].failed = TRUE,
                                      !.last = [op |-> "execute", caller |-> c,
                                                conn |-> conn, ok |-> FALSE]]
                ELSE db' = [db EXCEPT !.tx[conn].rows = @ \cup {e},
                                      !.began[c].written = @ \cup {e},
                                      !.last = [op |-> "execute", caller |-> c,
                                                conn |-> conn, ok |-> TRUE]]
    /\ UNCHANGED engine_vars

\* DatabaseManager.commit_transaction(conn)
CommitTransaction ==
    /\ \E c \in Callers :
         LET conn == db.held[c]
         IN  /\ conn # 0
             /\ db.tx[conn].active
             /\ db' = [release_connection(
                           [db EXCEPT !.table = @ \cup db.tx[conn].rows,
                                      !.tx[conn] = NoTransaction], conn)
                          EXCEPT !.held[c] = 0,
                                 !.last = [op |-> "commit_transaction", caller |-> c,
                                           conn |-> conn]]
    /\ UNCHANGED engine_vars

\* DatabaseManager.rollback_transaction(conn)
RollbackTransaction ==
    /\ \E c \in Callers :
         LET conn == db.held[c]
         IN  /\ conn # 0
             /\ db.tx[conn].active
             /\ db' = [release_connection([db EXCEPT !.tx[conn] = NoTransaction], conn)
                          EXCEPT !.held[c] = 0,
                                 !.last = [op |-> "rollback_transaction", caller |-> c,
                                           conn |-> conn,
                                           failed |-> db.began[c].failed,
                                           written |-> db.began[c].written,
                                           before |-> db.began[c].before]]
    /\ UNCHANGED engine_vars

\* DatabaseManager.fetch_all("SELECT ..."): get_connection, the query,
\* commit, release_connection; any caller, also one inside a transaction
FetchAll ==
    /\ CanGet(db)
    /\ \E c \in Callers :
         LET g == get_connection(db)
         IN  db' = [release_connection(g.db, g.conn) EXCEPT
                       !.last = [op |-> "fetch_all", caller |-> c, conn |-> g.conn,
                                 rows |-> db.table \cup db.tx[g.conn].rows]]
    /\ UNCHANGED engine_vars

NextDB ==
    \/ GetConnection
    \/ ReleaseConnection
    \/ BeginTransaction
    \/ TxInsert
    \/ CommitTransaction
    \/ RollbackTransaction
    \/ FetchAll

----------------------------------------------------------------------------
(* The state after construction, set_params, load_data and set_strategy *)

\* get_config().validate_param_consistency(...) of initialize() (line 375):
\* whether the call returns
ConfigObjects == {[validates |-> FALSE], [validates |-> TRUE]}

Init ==
    /\ config \in ConfigObjects
    /\ params = [initial_cash |-> InitialCash * RateScale * RateScale,
                 transaction_cost |-> TransactionCostRate,
                 slippage |-> SlippageRate,
                 stamp_tax |-> StampTaxRate,
                 max_position_percentage |-> MaxPositionRate]
    /\ me_params = [transaction_cost |-> TransactionCostRate, slippage |-> SlippageRate]
    /\ data \in DataSets
    /\ status = FreshStatus(data)
    /\ account = FreshAccount(params)
    /\ results = FreshResults
    /\ order_counter = 0
    /\ strategy = [initialized |-> FALSE,
                   plan |-> [b \in 1..NBars |-> [set |-> FALSE, signals |-> <<>>]]]
    /\ orders = <<>>
    /\ order_book = [buy |-> <<>>, sell |-> <<>>]
    /\ me_trades = <<>>
    /\ pc = "idle"
    /\ next_step = 0
    /\ pending = <<>>
    /\ now = NBars + 1
    /\ rng = 1
    /\ last_call = [op |-> "construct"]
    /\ prev_run = [valid |-> FALSE, account_history |-> <<>>, trades |-> <<>>]
    /\ runs = [total |-> 0, since_reset |-> 0, finished |-> FALSE]
    /\ bar_log = <<>>
    /\ db = FreshDb

----------------------------------------------------------------------------
(* BacktestEngine: reset, initialize, run *)

\* history: reset() discards the results of a run; remember them when the run
\* ended normally and had started from a reset engine
SavedRun ==
    IF runs.finished
    THEN [valid |-> TRUE, account_history |-> results.account_history,
          trades |-> results.trades]
    ELSE prev_run

\* BacktestEngine.reset(), without the status and results it sets
ResetRest ==
    /\ account' = FreshAccount(params)
    /\ order_counter' = 0
    /\ orders' = <<>>
    /\ order_book' = me_reset(MEState(orders, order_book, me_trades)).order_book
    /\ me_trades' = me_reset(MEState(orders, order_book, me_trades)).trades
    /\ prev_run' = SavedRun
    /\ next_step' = 0
    /\ pending' = <<>>
    /\ bar_log' = <<>>
    /\ UNCHANGED <<db, config, params, me_params, data>>

\* BacktestEngine.reset()
Reset ==
    /\ pc = "idle"
    /\ status' = FreshStatus(data)
    /\ results' = FreshResults
    /\ strategy' = [strategy EXCEPT !.initialized = FALSE]
    /\ ResetRest
    /\ runs' = [runs EXCEPT !.since_reset = 0, !.finished = FALSE]
    /\ last_call' = [op |-> "reset"]
    /\ UNCHANGED <<pc, now, rng>>

\* the status and results initialize() leaves: reset(), strategy.initialize(),
\* record_account_state(), initialized = True
InitializedStatus == [FreshStatus(data) EXCEPT !.initialized = TRUE]

InitializedResults ==
    record_account_state(FreshResults, FreshAccount(params), FreshStatus(data), data, now)

\* BacktestEngine.initialize() with data and strategy set and a configuration
\* that names no conflicting symbol or dates
Initialize ==
    /\ pc = "idle"
    /\ config.validates
    /\ status' = InitializedStatus
    /\ results' = InitializedResults
    /\ strategy' = [strategy EXCEPT !.initialized = TRUE]
    /\ ResetRest
    /\ runs' = [runs EXCEPT !.since_reset = 0, !.finished = FALSE]
    /\ last_call' = [op |-> "initialize"]
    /\ UNCHANGED <<pc, now, rng>>

\* BacktestEngine.initialize() with data and strategy set, raising at line 375
\* after its reset() (line 329)
InitializeFault ==
    /\ pc = "idle"
    /\ ~config.validates
    /\ status' = FreshStatus(data)
    /\ results' = FreshResults
    /\ strategy' = [strategy EXCEPT !.initialized = FALSE]
    /\ ResetRest
    /\ runs' = [runs EXCEPT !.since_reset = 0, !.finished = FALSE]
    /\ last_call' = [op |-> "initialize_raised"]
    /\ UNCHANGED <<pc, now, rng>>

\* run() up to the loop (lines 413-419): initialize() first unless the engine
\* is initialized, then running = True
RunBegin ==
    /\ pc = "idle"
    /\ runs.total < MaxRuns
    /\ now' \in ClockReadings
    /\ rng' \in 1..MaxUuid
    /\ IF status.initialized
       THEN /\ status' = [status EXCEPT !.running = TRUE]
            /\ next_step' = 0
            /\ bar_log' = <<>>
            /\ UNCHANGED <<results, strategy, account, order_counter, orders, order_book,
                           me_trades, prev_run, pending, config, params, me_params, data,
                           db>>
       ELSE /\ config.validates
            /\ status' = [InitializedStatus EXCEPT !.running = TRUE]
            /\ results' = InitializedResults
            /\ strategy' = [strategy EXCEPT !.initialized = TRUE]
            /\ ResetRest
    /\ runs' = [total |-> runs.total + 1, since_reset |-> runs.since_reset + 1,
                finished |-> FALSE]
    /\ pc' = "loop"
    /\ last_call' = [op |-> "run_begin"]

\* run() on an engine that is not initialized, initialize() raising after its
\* reset() (the configuration names another symbol, strategy.initialize raises)
RunInitFault ==
    /\ pc = "idle"
    /\ runs.total < MaxRuns
    /\ ~status.initialized
    /\ status' = FreshStatus(data)
    /\ results' = FreshResults
    /\ strategy' = [strategy EXCEPT !.initialized = FALSE]
    /\ ResetRest
    /\ runs' = [total |-> runs.total + 1, since_reset |-> 0, finished |-> FALSE]
    /\ last_call' = [op |-> "run_raised", at |-> "initialize"]
    /\ UNCHANGED <<pc, now, rng>>

\* the signal as execute_strategy records it (lines 471-474)
Stamped(signal, bar) ==
    [symbol |-> signal.symbol, action |-> signal.action, price |-> signal.price,
     volume |-> signal.volume, order_type |-> signal.order_type, timestamp |-> bar.date]

\* the lists strategy.generate_signals may return for bar b: a strategy is a
\* deterministic function of the bar, so a bar it has seen gets the same list
GeneratedSignals(b) ==
    IF strategy.plan[b].set THEN {strategy.plan[b].signals}
    ELSE SignalLists(Min(MaxSignals, MaxOrderCount - Min(order_counter, MaxOrderCount)))

\* history: strategy.generate_signals has been called for this step
OpenBar(step) ==
    [step |-> step, closed |-> FALSE, cash |-> 0, total_equity |-> RatInt(0)]

\* history: the iteration for the last logged bar has finished with this account
ClosedBars(log, acct) ==
    [log EXCEPT ![Len(log)] = [@ EXCEPT !.closed = TRUE, !.cash = acct.cash,
                                        !.total_equity = acct.total_equity]]

\* One iteration of run's loop up to the signals (lines 423-474):
\* current_step = step, record_account_state(), strategy.generate_signals and
\* the recording of the signals
BarBegin ==
    /\ pc = "loop"
    /\ next_step < status.total_steps
    /\ LET st == [status EXCEPT !.current_step = next_step]
           bar == Bar(data, next_step)
       IN  /\ status' = st
           /\ \E sigs \in GeneratedSignals(next_step + 1) :
                /\ strategy' = [strategy EXCEPT !.plan[next_step + 1] =
                                                    [set |-> TRUE, signals |-> sigs]]
                /\ results' = [record_account_state(results, account, st, data, now)
                                  EXCEPT !.signals = @ \o [k \in DOMAIN sigs |-> Stamped(sigs[k], bar)]]
                /\ pending' = sigs
    /\ pc' = "exec"
    /\ bar_log' = Append(bar_log, OpenBar(next_step))
    /\ last_call' = [op |-> "bar_begin"]
    /\ UNCHANGED <<db, config, params, me_params, account, order_counter, orders, order_book,
                   me_trades, next_step, data, now, rng, prev_run, runs>>

\* One iteration of the loop `for signal in signals` of execute_strategy
\* (lines 477-488): create_order, and for an order add_order and
\* process_trade_results.  When update_account raises, the exception leaves
\* run() through its handler (lines 455-458): running = False, re-raise.
ExecSignal ==
    /\ pc = "exec"
    /\ pending # <<>>
    /\ LET signal == Head(pending)
           bar == Bar(data, status.current_step)
           counter == order_counter + 1
           co == create_order(signal, bar, account, params, counter, rng)
       IN  /\ order_counter' = counter
           /\ IF co.ok
              THEN LET i == Len(orders) + 1
                       r == add_order(MEState(Append(orders, co.order), order_book, me_trades),
                                      i, me_params, now)
                       a == IF Truthy(r)
                            THEN ApplyTrades(account, r.trades, co.order.action, params)
                            ELSE [acct |-> account, applied |-> 0, raised |-> FALSE]
                   IN  /\ orders' = r.me.orders
                       /\ order_book' = r.me.order_book
                       /\ account' = a.acct
                       /\ results' = [results EXCEPT
                                         !.orders = Append(@, i),
                                         !.trades = @ \o Restamp(SubSeq(r.trades, 1, a.applied), bar)]
                       /\ me_trades' = RestampTail(r.me.trades, r.trades, a.applied, bar)
                       /\ IF a.raised
                          THEN /\ status' = [status EXCEPT !.running = FALSE]
                               /\ pc' = "idle"
                               /\ pending' = <<>>
                               /\ last_call' = [op |-> "run_raised", at |-> "ledger"]
                          ELSE /\ pending' = Tail(pending)
                               /\ last_call' = [op |-> "exec_signal", signal |-> signal,
                                                created |-> TRUE, order |-> i,
                                                trades |-> r.trades, matched |-> r.matched]
                               /\ UNCHANGED <<status, pc>>
              ELSE /\ pending' = Tail(pending)
                   /\ last_call' = [op |-> "exec_signal", signal |-> signal,
                                    created |-> FALSE, order |-> 0,
                                    trades |-> <<>>, matched |-> <<>>]
                   /\ UNCHANGED <<orders, order_book, account, results, me_trades, status, pc>>
    /\ UNCHANGED <<db, config, params, me_params, strategy, next_step, data, now, rng,
                   prev_run, runs, bar_log>>

\* a loop that leaves out every other bar
NextStep_Skip(step) == step + 2

\* the step after `step` in range(total_steps) (line 423)
NextStep(step) == step + 1

\* The end of an iteration of run's loop (line 441): update_account_equity
MarkToMarket ==
    /\ pc = "exec"
    /\ pending = <<>>
    /\ account' = update_account_equity(account, Bar(data, status.current_step), params)
    /\ next_step' = NextStep(next_step)
    /\ pc' = "loop"
    /\ bar_log' = ClosedBars(bar_log, account')
    /\ last_call' = [op |-> "mark_to_market"]
    /\ UNCHANGED <<db, config, params, me_params, status, results, order_counter, strategy, orders,
                   order_book, me_trades, pending, data, now, rng, prev_run, runs>>

\* run() after the loop (lines 443-453): running = False, completed = True,
\* the final record_account_state()
RunFinish ==
    /\ pc = "loop"
    /\ next_step = status.total_steps
    /\ status' = [status EXCEPT !.running = FALSE, !.completed = TRUE]
    /\ results' = record_account_state(results, account, status, data, now)
    /\ runs' = [runs EXCEPT !.finished = (runs.since_reset = 1)]
    /\ pc' = "idle"
    /\ last_call' = [op |-> "run_returned"]
    /\ UNCHANGED <<db, config, params, me_params, account, order_counter, strategy, orders, order_book,
                   me_trades, next_step, pending, data, now, rng, prev_run, bar_log>>

\* An exception inside the try block of run(): the handler sets running =
\* False and re-raises (lines 455-458).  What the block had done before the
\* exception stays done:
\*   "signals"  strategy.generate_signals raises in an iteration of the loop,
\*              after current_step = step and record_account_state()
\*   "sample"   the final record_account_state() raises
\*   "metrics"  calculate_performance_metrics() raises
RunFault ==
    /\ pc = "loop"
    /\ \E at \in {"signals", "sample", "metrics"} :
        /\ at = "signals" <=> next_step < status.total_steps
        /\ status' = [status EXCEPT
                         !.running = FALSE,
                         !.completed = IF at = "signals" THEN @ ELSE TRUE,
                         !.current_step = IF at = "signals" THEN next_step ELSE @]
        /\ results' = IF at = "signals"
                      THEN record_account_state(results, account,
                               [status EXCEPT !.current_step = next_step], data, now)
                      ELSE IF at = "metrics"
                      THEN record_account_state(results, account, status, data, now)
                      ELSE results
        /\ bar_log' = IF at = "signals" THEN Append(bar_log, OpenBar(next_step))
                       ELSE bar_log
        /\ last_call' = [op |-> "run_raised", at |-> at]
    /\ pc' = "idle"
    /\ UNCHANGED <<db, config, params, me_params, account, order_counter, strategy, orders, order_book,
                   me_trades, next_step, pending, data, now, rng, prev_run, runs>>

Next ==
    \/ Reset
    \/ Initialize
    \/ InitializeFault
    \/ RunBegin
    \/ RunInitFault
    \/ BarBegin
    \/ ExecSignal
    \/ MarkToMarket
    \/ RunFinish
    \/ RunFault

Spec == Init /\ [][Next]_vars

----------------------------------------------------------------------------
(* A MatchingEngine used on its own *)

\* add_order(Order(...)) with a new Order object
ME_AddOrder ==
    /\ Len(orders) < MaxHeap
    /\ \E o \in MEOrders :
         LET i == Len(orders) + 1
             order == NewOrder(<<i, 0>>, o.symbol, o.action, o.price, o.volume,
                               o.order_type, now)
             opp == OppositeSide(o.action)
             r == add_order(MEState(Append(orders, order), order_book, me_trades),
                            i, me_params, now)
         IN  /\ orders' = r.me.orders
             /\ order_book' = r.me.order_book
             /\ me_trades' = r.me.trades
             /\ last_call' = [op |-> "add_order", order |-> i, trades |-> r.trades,
                              matched |-> r.matched, opp_before |-> order_book[opp]]
    /\ UNCHANGED <<be_vars, me_params, data, now, rng>>

\* cancel_order(order_id), for the id of an order or of none
ME_CancelOrder ==
    /\ \E k \in 1..(Len(orders) + 1) :
         LET r == cancel_order(MEState(orders, order_book, me_trades), <<k, 0>>)
         IN  /\ orders' = r.me.orders
             /\ order_book' = r.me.order_book
             /\ last_call' = [op |-> "cancel_order", order_id |-> <<k, 0>>, ret |-> r.ret]
    /\ UNCHANGED <<be_vars, me_params, me_trades, data, now, rng>>

----------------------------------------------------------------------------
(* examples/simple_ma_strategy.py: SimpleMAStrategy driven by BacktestEngine.run *)

\* the sum of the w closes ending at row t (rows count from 1)
RECURSIVE RollingSum(_, _, _)
RollingSum(close, t, w) ==
    IF w = 0 THEN 0 ELSE close[t] + RollingSum(close, t - 1, w - 1)

\* data["ma_diff"] at row t, times ma_short * ma_long; the rolling means are
\* NaN before row ma_long
ma_diff(close, t) ==
    RollingSum(close, t, MAShort) * MALong - RollingSum(close, t, MALong) * MAShort

\* data["ma_cross"] at row t (calculate_custom_indicators, lines 68-75): a
\* comparison with NaN is false
ma_cross(close, t) ==
    IF t - 1 < MALong THEN 0
    ELSE IF ma_diff(close, t) > 0 /\ ma_diff(close, t - 1) < 0 THEN 1
    ELSE IF ma_diff(close, t) < 0 /\ ma_diff(close, t - 1) > 0 THEN 0 - 1
    ELSE 0

\* SimpleMAStrategy.generate_signals(data, context); the signal dicts carry
\* no order_type, which create_order reads as "market" (line 539)
generate_signals(d, step, acct, position, p) ==
    LET bar == Bar(d, step)
        cross == ma_cross(d.close, step + 1)
    IN  IF cross = 1
        THEN IF position <= 0 /\ calculate_position_size(acct, bar.close, p) > 0
             THEN <<[symbol |-> bar.code, action |-> "buy", price |-> bar.close,
                     volume |-> calculate_position_size(acct, bar.close, p),
                     order_type |-> "market"]>>
             ELSE <<>>
        ELSE IF cross = 0 - 1
        THEN IF position > 0
             THEN <<[symbol |-> bar.code, action |-> "sell", price |-> bar.close,
                     volume |-> position, order_type |-> "market"]>>
             ELSE <<>>
        ELSE <<>>

\* the data a SimpleMAStrategy is run on
MADataSets ==
    {[close |-> c, date_col |-> "date"] : c \in [1..MABars -> Prices]}

\* The engine after load_data and set_strategy(SimpleMAStrategy()).
\* status["position"] of the strategy is written by its execute_order only
\* (lines 136-156), which BaseStrategy.on_bar calls and BacktestEngine does not.
InitMA ==
    /\ config = [validates |-> TRUE]
    /\ params = [initial_cash |-> InitialCash * RateScale * RateScale,
                 transaction_cost |-> TransactionCostRate,
                 slippage |-> SlippageRate,
                 stamp_tax |-> StampTaxRate,
                 max_position_percentage |-> MaxPositionRate]
    /\ me_params = [transaction_cost |-> TransactionCostRate, slippage |-> SlippageRate]
    /\ data \in MADataSets
    /\ status = FreshStatus(data)
    /\ account = FreshAccount(params)
    /\ results = FreshResults
    /\ order_counter = 0
    /\ strategy = [initialized |-> FALSE, position |-> 0,
                   plan |-> [b \in 1..MABars |-> [set |-> FALSE, signals |-> <<>>]]]
    /\ orders = <<>>
    /\ order_book = [buy |-> <<>>, sell |-> <<>>]
    /\ me_trades = <<>>
    /\ pc = "idle"
    /\ next_step = 0
    /\ pending = <<>>
    /\ now = MaxNow
    /\ rng = 1
    /\ last_call = [op |-> "construct"]
    /\ prev_run = [valid |-> FALSE, account_history |-> <<>>, trades |-> <<>>]
    /\ runs = [total |-> 0, since_reset |-> 0, finished |-> FALSE]
    /\ bar_log = <<>>
    /\ db = FreshDb

\* BarBegin with the signals of the SimpleMAStrategy
MABarBegin ==
    /\ pc = "loop"
    /\ next_step < status.total_steps
    /\ LET st == [status EXCEPT !.current_step = next_step]
           bar == Bar(data, next_step)
           sigs == generate_signals(data, next_step, account, strategy.position, params)
       IN  /\ status' = st
           /\ strategy' = [strategy EXCEPT !.plan[next_step + 1] =
                                               [set |-> TRUE, signals |-> sigs]]
           /\ results' = [record_account_state(results, account, st, data, now)
                             EXCEPT !.signals = @ \o [k \in DOMAIN sigs |-> Stamped(sigs[k], bar)]]
           /\ pending' = sigs
    /\ pc' = "exec"
    /\ bar_log' = Append(bar_log, OpenBar(next_step))
    /\ last_call' = [op |-> "bar_begin"]
    /\ UNCHANGED <<db, config, params, me_params, account, order_counter, orders, order_book,
                   me_trades, next_step, data, now, rng, prev_run, runs>>

NextMA ==
    \/ RunBegin
    \/ MABarBegin
    \/ ExecSignal
    \/ MarkToMarket
    \/ RunFinish

SpecMA == InitMA /\ [][NextMA]_vars

----------------------------------------------------------------------------
(* Performance metrics *)

\* the column account_history["total_equity"]
EquityColumn(history) == [k \in DOMAIN history |-> history[k].total_equity]

\* Series.pct_change().dropna(): e_k / e_(k-1) - 1 for every k after the first
pct_change(equity) ==
    [k \in 1..(Len(equity) - 1) |-> RatSub(RatDiv(equity[k + 1], equity[k]), RatInt(1))]

\* (1 + returns).cumprod()
RECURSIVE cumprod(_, _)
cumprod(returns, k) ==
    IF k = 0 THEN RatInt(1)
    ELSE RatMul(cumprod(returns, k - 1), RatAdd(RatInt(1), returns[k]))

cumulative_returns(returns) == [k \in DOMAIN returns |-> cumprod(returns, k)]

\* Series.expanding(min_periods=1).max() at position k
RECURSIVE ExpandingMax(_, _)
ExpandingMax(series, k) ==
    IF k = 1 THEN series[1] ELSE RatMax(ExpandingMax(series, k - 1), series[k])

\* Series.min()
RECURSIVE SeriesMin(_, _)
SeriesMin(series, k) ==
    IF k = 1 THEN series[1] ELSE RatMin(SeriesMin(series, k - 1), series[k])

\* max_drawdown of both modules: drawdown = (cumulative_returns - peak) / peak
\* over the cumulative product of the returns, drawdown.min() * 100
max_drawdown(returns) ==
    LET cum == cumulative_returns(returns)
        drawdown == [k \in DOMAIN cum |->
                        RatDiv(RatSub(cum[k], ExpandingMax(cum, k)), ExpandingMax(cum, k))]
    IN  RatScale(SeriesMin(drawdown, Len(drawdown)), 100)

\* total_return = (equity.iloc[-1] / equity.iloc[0] - 1) * 100
total_return(equity) ==
    RatScale(RatSub(RatDiv(equity[Len(equity)], equity[1]), RatInt(1)), 100)

\* the outcome of a metric computation: raised, or the metrics it left
NoMetrics == [raised |-> FALSE, empty |-> TRUE, total_return |-> 0, max_drawdown |-> 0]
Raised == [raised |-> TRUE, empty |-> TRUE, total_return |-> 0, max_drawdown |-> 0]
Metrics(equity, returns) ==
    [raised |-> FALSE, empty |-> FALSE,
     total_return |-> Round2(total_return(equity)),
     max_drawdown |-> Round2(max_drawdown(returns))]

\* BacktestEngine.calculate_performance_metrics(): returns early, leaving
\* performance_metrics as reset() made it, when there is no sample or no return
calculate_performance_metrics(history) ==
    LET equity == EquityColumn(history)
        returns == pct_change(equity)
    IN  IF Len(history) = 0 THEN NoMetrics
        ELSE IF Len(returns) = 0 THEN NoMetrics
        ELSE Metrics(equity, returns)

\* PerformanceAnalyzer.analyze(account_history, trades): {} for an empty
\* history; calculate_return_metrics divides annualization_factor by
\* len(daily_returns) (line 113), two ints: ZeroDivisionError for one sample
analyze(history) ==
    LET equity == EquityColumn(history)
        returns == pct_change(equity)
    IN  IF Len(history) = 0 THEN NoMetrics
        ELSE IF Len(returns) = 0 THEN Raised
        ELSE Metrics(equity, returns)

\* the account histories handed to the metrics: positive equities
EquityLists == UNION {[1..k -> 1..MaxEquity] : k \in 0..MaxSamples}

HistoryOf(e) ==
    [k \in DOMAIN e |-> [timestamp |-> k, cash |-> e[k], total_equity |-> RatInt(e[k]),
                          pnl |-> RatInt(0), pnl_percentage |-> RatInt(0)]]

\* an engine, or an analyzer, holding an account history
InitMetrics ==
    /\ config = [validates |-> TRUE]
    /\ params = [initial_cash |-> InitialCash * RateScale * RateScale,
                 transaction_cost |-> TransactionCostRate,
                 slippage |-> SlippageRate,
                 stamp_tax |-> StampTaxRate,
                 max_position_percentage |-> MaxPositionRate]
    /\ me_params = [transaction_cost |-> TransactionCostRate, slippage |-> SlippageRate]
    /\ data \in DataSets
    /\ status = FreshStatus(data)
    /\ account = FreshAccount(params)
    /\ \E e \in EquityLists :
         results = [FreshResults EXCEPT !.account_history = HistoryOf(e)]
    /\ order_counter = 0
    /\ strategy = [initialized |-> FALSE,
                   plan |-> [b \in 1..NBars |-> [set |-> FALSE, signals |-> <<>>]]]
    /\ orders = <<>>
    /\ order_book = [buy |-> <<>>, sell |-> <<>>]
    /\ me_trades = <<>>
    /\ pc = "idle"
    /\ next_step = 0
    /\ pending = <<>>
    /\ now = NBars + 1
    /\ rng = 1
    /\ last_call = [op |-> "construct"]
    /\ prev_run = [valid |-> FALSE, account_history |-> <<>>, trades |-> <<>>]
    /\ runs = [total |-> 0, since_reset |-> 0, finished |-> FALSE]
    /\ bar_log = <<>>
    /\ db = FreshDb

CalculatePerformanceMetrics ==
    /\ last_call' = [op |-> "calculate_performance_metrics",
                     out |-> calculate_performance_metrics(results.account_history)]
    /\ UNCHANGED <<db, config, params, me_params, status, account, results, order_counter,
                   strategy, orders, order_book, me_trades, pc, next_step, pending, data,
                   now, rng, prev_run, runs, bar_log>>

Analyze ==
    /\ last_call' = [op |-> "analyze", out |-> analyze(results.account_history)]
    /\ UNCHANGED <<db, config, params, me_params, status, account, results, order_counter,
                   strategy, orders, order_book, me_trades, pc, next_step, pending, data,
                   now, rng, prev_run, runs, bar_log>>

NextMetrics ==
    \/ CalculatePerformanceMetrics
    \/ Analyze

SpecMetrics == InitMetrics /\ [][NextMetrics]_vars

----------------------------------------------------------------------------
(* Other specifications of the engine *)

\* An engine whose initial_cash was set to an amount near the price of one
\* share at the first close, with a configuration object that validates: the
\* state after set_params({"initial_cash": c}), load_data, set_strategy and
\* reset()
CashInputs == {SmallCash * RateScale + c : c \in 0..MaxCashExtra}

InitFunds ==
    /\ config = [validates |-> TRUE]
    /\ \E c \in CashInputs :
         /\ params = [initial_cash |-> c,
                      transaction_cost |-> TransactionCostRate,
                      slippage |-> SlippageRate,
                      stamp_tax |-> StampTaxRate,
                      max_position_percentage |-> MaxPositionRate]
         /\ account = FreshAccount(params)
    /\ me_params = [transaction_cost |-> TransactionCostRate, slippage |-> SlippageRate]
    /\ data \in DataSets
    /\ status = FreshStatus(data)
    /\ results = FreshResults
    /\ order_counter = 0
    /\ strategy = [initialized |-> FALSE,
                   plan |-> [b \in 1..NBars |-> [set |-> FALSE, signals |-> <<>>]]]
    /\ orders = <<>>
    /\ order_book = [buy |-> <<>>, sell |-> <<>>]
    /\ me_trades = <<>>
    /\ pc = "idle"
    /\ next_step = 0
    /\ pending = <<>>
    /\ now = NBars + 1
    /\ rng = 1
    /\ last_call = [op |-> "construct"]
    /\ prev_run = [valid |-> FALSE, account_history |-> <<>>, trades |-> <<>>]
    /\ runs = [total |-> 0, since_reset |-> 0, finished |-> FALSE]
    /\ bar_log = <<>>
    /\ db = FreshDb

NextFunds ==
    \/ RunBegin
    \/ BarBegin
    \/ ExecSignal
    \/ MarkToMarket
    \/ RunFinish

SpecFunds == InitFunds /\ [][NextFunds]_vars

NextME ==
    \/ ME_AddOrder
    \/ ME_CancelOrder

\* a MatchingEngine is built without a configuration object
InitME == Init /\ config.validates

SpecME == InitME /\ [][NextME]_vars

\* a DatabaseManager used by concurrent callers
InitDB == Init /\ config.validates

SpecDB == InitDB /\ [][NextDB]_vars

----------------------------------------------------------------------------
(* Properties *)

\* what the recorded trades took from the cash (buys) and gave to it (sells)
RECURSIVE CashOut(_)
CashOut(trades) ==
    IF trades = <<>> THEN 0
    ELSE LET tr == Head(trades)
         IN  (IF tr.action = "buy"
              THEN tr.price * tr.volume * RateScale + tr.transaction_cost
              ELSE 0) + CashOut(Tail(trades))

RECURSIVE CashIn(_)
CashIn(trades) ==
    IF trades = <<>> THEN 0
    ELSE LET tr == Head(trades)
         IN  (IF tr.action = "sell"
              THEN tr.price * tr.volume * RateScale - tr.transaction_cost
                   - tr.price * tr.volume * params.stamp_tax
              ELSE 0) + CashIn(Tail(trades))

\* C1: when a run has completed, cash = initial_cash - (price*volume + cost of
\* every recorded buy) + (price*volume - cost - stamp tax of every recorded
\* sell), and the recorded trades are exactly the trades the matching engine
\* produced, each once.
C1_FundsConservation ==
    last_call.op = "run_returned" =>
        /\ account.cash = params.initial_cash - CashOut(results.trades) + CashIn(results.trades)
        /\ results.trades = me_trades

C1_Witness ==
    /\ last_call.op = "run_returned"
    /\ \E a, b \in DOMAIN results.trades :
          /\ results.trades[a].action = "buy"
          /\ results.trades[a].order_type = "market"
          /\ results.trades[b].action = "sell"
          /\ results.trades[b].order_type = "limit"

\* a sell signal that asks for more than the account holds of its symbol
OverSell(signal) ==
    /\ signal.action = "sell"
    /\ \/ signal.symbol \notin DOMAIN account.positions
       \/ account.positions[signal.symbol].volume < signal.volume

\* C2: every position has volume >= 0 in every state, and executing a sell
\* signal for more than is held of its symbol (or for a symbol not held)
\* creates no order and changes neither cash, positions, book nor trades.
C2_NoOverSell ==
    /\ [](\A x \in DOMAIN account.positions : account.positions[x].volume >= 0)
    /\ [][(pc = "exec" /\ pending # <<>> /\ OverSell(Head(pending))) =>
             /\ account' = account
             /\ orders' = orders
             /\ order_book' = order_book
             /\ me_trades' = me_trades
             /\ results'.orders = results.orders
             /\ results'.trades = results.trades]_vars

C2_Witness ==
    /\ last_call.op = "exec_signal"
    /\ last_call.signal.action = "sell"
    /\ ~last_call.created
    /\ last_call.signal.symbol \in DOMAIN account.positions
    /\ account.positions[last_call.signal.symbol].volume = 1
    /\ last_call.signal.volume = 2

\* the sum of the market values of the positions with a symbol in S
RECURSIVE SumMarketValue(_)
SumMarketValue(S) ==
    IF S = {} THEN [n |-> 0, d |-> 1]
    ELSE LET x == CHOOSE y \in S : TRUE
             rest == SumMarketValue(S \ {x})
             mv == account.positions[x].market_value
         IN  Rat(mv.n * rest.d + rest.n * mv.d, mv.d * rest.d)

\* C3: right after the mark-to-market step of a bar, total_equity = cash + the
\* sum of the positions' market values, and each market value = volume * close
\* for the bar's symbol and volume * avg_price for any other symbol.
C3_EquityIdentity ==
    last_call.op = "mark_to_market" =>
        LET sum == SumMarketValue(DOMAIN account.positions)
            close == data.close[status.current_step + 1]
        IN  /\ account.total_equity = Rat(account.cash * sum.d + sum.n, sum.d)
            /\ \A x \in DOMAIN account.positions :
                  LET pos == account.positions[x]
                  IN  pos.market_value =
                         IF x = BarSymbol
                         THEN Rat(pos.volume * close * RateScale, 1)
                         ELSE Rat(pos.volume * pos.avg_price.n * RateScale, pos.avg_price.d)

C3_Witness ==
    /\ last_call.op = "mark_to_market"
    /\ DOMAIN account.positions = Symbols
    /\ account.positions[BarSymbol].avg_price
          # [n |-> data.close[status.current_step + 1], d |-> 1]

\* C4: every trade a limit order produces has the price of the resting order
\* it was matched with, whether the incoming order buys or sells.
C4_RestingPrice ==
    last_call.op = "add_order" =>
        \A k \in DOMAIN last_call.matched :
            last_call.trades[k].price = orders[last_call.matched[k]].price

C4_Witness ==
    /\ last_call.op = "add_order"
    /\ \E k \in DOMAIN last_call.matched :
          /\ orders[last_call.order].action = "buy"
          /\ orders[last_call.order].price > orders[last_call.matched[k]].price
          /\ last_call.trades[k].price = orders[last_call.matched[k]].price

\* C5: a run that started from a reset engine and returned normally has the
\* account_history and the trades of the previous such run (same data, same
\* params, same strategy).
C5_Deterministic ==
    (last_call.op = "run_returned" /\ runs.finished /\ prev_run.valid) =>
        /\ results.account_history = prev_run.account_history
        /\ results.trades = prev_run.trades

\* the incoming order o and the resting order r could still trade
StillCrossing(o, r) ==
    /\ r.symbol = o.symbol
    /\ r.filled_volume < r.volume
    /\ IF o.action = "buy" THEN r.price <= o.price ELSE r.price >= o.price

\* C6: when add_order returns for a limit order, the order is completely
\* filled or no order resting on the opposite side with remaining volume has a
\* crossing price.
C6_NoCrossingLeft ==
    (last_call.op = "add_order" /\ orders[last_call.order].order_type = "limit") =>
        LET o == orders[last_call.order]
            opp == order_book[IF o.action = "buy" THEN "sell" ELSE "buy"]
        IN  \/ o.filled_volume >= o.volume
            \/ \A k \in DOMAIN opp : ~StillCrossing(o, orders[opp[k]])

\* C7: within one add_order call a resting order is filled only if every order
\* that stood ahead of it in the book has been completely filled.
C7_BookOrder ==
    last_call.op = "add_order" =>
        \A a, b \in DOMAIN last_call.opp_before :
            (a < b /\ \E k \in DOMAIN last_call.matched :
                          last_call.matched[k] = last_call.opp_before[b])
            => orders[last_call.opp_before[a]].filled_volume
                   >= orders[last_call.opp_before[a]].volume

\* the status changes of an order that the state machine allows
StatusSteps ==
    {<<"pending", "partially_filled">>, <<"pending", "filled">>,
     <<"partially_filled", "filled">>, <<"pending", "cancelled">>,
     <<"partially_filled", "cancelled">>}

C9_FourStates ==
    <<status.initialized, status.running, status.completed>> \in
        {<<FALSE, FALSE, FALSE>>, <<TRUE, FALSE, FALSE>>,
         <<TRUE, TRUE, FALSE>>, <<TRUE, FALSE, TRUE>>}

\* C10: when run() has raised, running = false and completed = false.
C10_FailedRun ==
    last_call.op = "run_raised" => (~status.running /\ ~status.completed)

\* a signal create_order has to reject: a buy that costs more than the cash, a
\* sell of more than is held
Rejected(signal) ==
    LET bar == Bar(data, status.current_step)
        price == IF signal.price = None THEN bar.close ELSE signal.price
        volume == IF signal.volume = None
                  THEN calculate_position_size(account, price, params)
                  ELSE signal.volume
    IN  \/ /\ signal.action = "buy"
           /\ price * volume * (RateScale + params.transaction_cost + params.slippage)
                  > account.cash
        \/ /\ signal.action = "sell"
           /\ \/ signal.symbol \notin DOMAIN account.positions
              \/ account.positions[signal.symbol].volume < volume

\* C11: executing a signal that create_order rejects (a buy whose
\* price*volume*(1+cost+slippage) exceeds the cash, a sell of more than is
\* held) submits no order, leaves cash, positions, recorded orders, trades and
\* the order book unchanged, raises nothing, and the loop goes on with the
\* remaining signals of the bar.
C11_RejectedSignal ==
    [][(pc = "exec" /\ pending # <<>> /\ Rejected(Head(pending))) =>
          /\ account' = account
          /\ orders' = orders
          /\ order_book' = order_book
          /\ me_trades' = me_trades
          /\ results'.orders = results.orders
          /\ results'.trades = results.trades
          /\ last_call'.op = "exec_signal"
          /\ ~last_call'.created
          /\ status' = status
          /\ pc' = "exec"
          /\ pending' = Tail(pending)]_vars

C11_Witness ==
    /\ last_call.op = "exec_signal"
    /\ ~last_call.created
    /\ last_call.signal.action = "buy"
    /\ pending # <<>>
    /\ status.running

\* C12: add_order on a market order returns one trade for the order's full
\* volume at price + price*slippage (buy) or price - price*slippage (sell),
\* with transaction_cost = fill_price * volume * cost rate; the order becomes
\* filled and both sides of the book stay as they were.
C12_MarketOrder ==
    [][(/\ last_call'.op = "exec_signal"
        /\ last_call'.created
        /\ orders'[last_call'.order].order_type = "market") =>
          LET o == orders'[last_call'.order]
              tr == last_call'.trades
          IN  /\ Len(tr) = 1
              /\ tr[1].volume = o.volume
              /\ tr[1].price * RateScale =
                     IF o.action = "buy"
                     THEN o.price * RateScale + o.price * me_params.slippage
                     ELSE o.price * RateScale - o.price * me_params.slippage
              /\ tr[1].transaction_cost =
                     tr[1].price * o.volume * me_params.transaction_cost
              /\ o.status = "filled"
              /\ o.filled_volume = o.volume
              /\ order_book' = order_book]_vars

C12_Witness ==
    /\ last_call.op = "exec_signal"
    /\ last_call.created
    /\ orders[last_call.order].order_type = "market"
    /\ orders[last_call.order].action = "sell"
    /\ orders[last_call.order].volume = 2
    /\ order_book.buy # <<>>

\* an order with this id rests in the book
InBook(order_id) ==
    \E side \in {"buy", "sell"} : \E k \in DOMAIN order_book[side] :
        orders[order_book[side][k]].order_id = order_id

\* the book side without the order i
Without(side, i) == SelectSeq(side, LAMBDA j : j # i)

\* C13: cancel_order(id) returns true, sets the status to cancelled and takes
\* the order out of the book exactly when an order with that id rests in the
\* book (pending or partially filled); otherwise it returns false and leaves
\* the book and every order's status as they were.
C13_CancelOrder ==
    /\ [](\A side \in {"buy", "sell"} : \A k \in DOMAIN order_book[side] :
             orders[order_book[side][k]].status \in {"pending", "partially_filled"})
    /\ [][last_call'.op = "cancel_order" =>
             LET id == last_call'.order_id
             IN  IF InBook(id)
                 THEN /\ last_call'.ret
                      /\ \E i \in DOMAIN orders :
                            /\ orders[i].order_id = id
                            /\ orders'[i].status = "cancelled"
                            /\ \A j \in DOMAIN orders : j # i => orders'[j] = orders[j]
                            /\ order_book' = [side \in {"buy", "sell"} |->
                                                 Without(order_book[side], i)]
                 ELSE /\ ~last_call'.ret
                      /\ order_book' = order_book
                      /\ orders' = orders]_vars

C13_Witness ==
    /\ last_call.op = "cancel_order"
    /\ last_call.ret
    /\ \E i \in DOMAIN orders :
          /\ orders[i].order_id = last_call.order_id
          /\ orders[i].status = "cancelled"
          /\ orders[i].filled_volume > 0
    /\ \E i \in DOMAIN orders : orders[i].status = "filled"

\* C14: initialize() with data loaded and a strategy set returns normally and
\* leaves initialized = true, cash = initial_cash, no positions, an empty
\* order book and trade list, the strategy initialized, and one sample,
\* stamped with bar 0, in account_history.
C14_Initialize ==
    last_call.op \in {"initialize", "initialize_raised"} =>
        /\ last_call.op = "initialize"
        /\ status.initialized
        /\ ~status.running
        /\ account.cash = params.initial_cash
        /\ DOMAIN account.positions = {}
        /\ order_book = [buy |-> <<>>, sell |-> <<>>]
        /\ me_trades = <<>>
        /\ strategy.initialized
        /\ Len(results.account_history) = 1
        /\ results.account_history[1].timestamp = Bar(data, 0).date
        /\ results.account_history[1].cash = params.initial_cash

\* what is left of a run: the bars not yet begun and the signals of the
\* current bar not yet executed
Remaining ==
    IF pc = "idle" THEN 0
    ELSE IF pc = "loop" THEN (status.total_steps - next_step) * (MaxSignals + 2) + 1
    ELSE (status.total_steps - next_step - 1) * (MaxSignals + 2) + Len(pending) + 2

\* C15: run() calls strategy.generate_signals once per bar in ascending bar
\* order, each call only after the previous bar's ledger update and
\* mark-to-market have finished; a run that has begun has work left and
\* every step of it leaves less, so it ends, and a run that returns has called
\* it for every bar and left completed = true.
C15_BarOrder ==
    /\ [](/\ \A k \in DOMAIN bar_log :
                /\ bar_log[k].step = k - 1
                /\ k < Len(bar_log) => bar_log[k].closed
          /\ last_call.op = "run_returned" =>
                /\ Len(bar_log) = status.total_steps
                /\ \A k \in DOMAIN bar_log : bar_log[k].closed
                /\ status.completed)
    /\ [](pc # "idle" => Remaining > 0)
    /\ [][pc # "idle" => Remaining' < Remaining]_vars

C15_Witness ==
    /\ last_call.op = "run_returned"
    /\ Len(bar_log) = NBars
    /\ NBars > 1
    /\ results.trades # <<>>

\* the list strategy.generate_signals returned for the current bar
Returned == strategy.plan[status.current_step + 1].signals

\* C16: the signals of a bar are executed one at a time in the order
\* generate_signals returned them, and the funds and holdings checks for a
\* signal are made on the cash and positions the trades of the earlier signals
\* of the bar have left.
C16_SignalOrder ==
    /\ [](pc = "exec" =>
            /\ Len(pending) <= Len(Returned)
            /\ pending = SubSeq(Returned, Len(Returned) - Len(pending) + 1, Len(Returned)))
    /\ [][(pc = "exec" /\ pending # <<>>) =>
            IF last_call'.op = "exec_signal"
            THEN /\ last_call'.signal = Head(pending)
                 /\ pending' = Tail(pending)
                 /\ last_call'.created = ~Rejected(Head(pending))
            ELSE /\ last_call'.op = "run_raised"
                 /\ ~Rejected(Head(pending))]_vars

\* a sell is accepted for a symbol the bar's pre-trade sample does not hold
C16_Witness ==
    /\ last_call.op = "exec_signal"
    /\ last_call.created
    /\ last_call.signal.action = "sell"
    /\ last_call.signal.symbol
           \notin results.positions_history[Len(results.positions_history)].positions

\* C17: when a run has returned, account_history holds for every bar a sample
\* with the bar's timestamp whose cash and total_equity are the account's
\* values after the bar's trades and mark-to-market.
C17_PostTradeSample ==
    last_call.op = "run_returned" =>
        \A k \in DOMAIN bar_log :
            \E j \in DOMAIN results.account_history :
                /\ results.account_history[j].timestamp = BarTimestamp(data, bar_log[k].step)
                /\ results.account_history[j].cash = bar_log[k].cash
                /\ results.account_history[j].total_equity = bar_log[k].total_equity

\* C18: in every reachable state every position entry of the account has a
\* volume greater than 0, also when the volume of the accepted signal came
\* from calculate_position_size.
C18_PositiveVolumes ==
    \A symbol \in DOMAIN account.positions : account.positions[symbol].volume > 0

\* C19: after reset(), whatever came before, cash and total_equity are the
\* initial cash, there are no positions, orders, trades, signals or samples,
\* the order counter is 0, initialized, running and completed are false, and
\* the matching engine's book and trade list are empty; a reset() of that
\* state gives the same state.
C19_Reset ==
    last_call.op = "reset" =>
        /\ account.cash = params.initial_cash
        /\ account.total_equity = RatInt(params.initial_cash)
        /\ DOMAIN account.positions = {}
        /\ results.orders = <<>>
        /\ results.trades = <<>>
        /\ results.signals = <<>>
        /\ results.account_history = <<>>
        /\ results.positions_history = <<>>
        /\ order_counter = 0
        /\ ~status.initialized /\ ~status.running /\ ~status.completed
        /\ order_book = [buy |-> <<>>, sell |-> <<>>]
        /\ me_trades = <<>>
        /\ account = FreshAccount(params)
        /\ status = FreshStatus(data)
        /\ results = FreshResults
        /\ strategy = [strategy EXCEPT !.initialized = FALSE]
        /\ me_reset(MEState(orders, order_book, me_trades))
              = MEState(orders, order_book, me_trades)

\* reset() after a run that returned with trades
C19_Witness ==
    /\ last_call.op = "reset"
    /\ prev_run.valid
    /\ prev_run.trades # <<>>

\* C20: a trade record the matching engine has created and appended to its
\* trade list keeps every field through the ledger update and the recording
\* of the result: after a signal is executed, the engine's trade list ends
\* with the records as add_order returned them.
C20_TradeRecords ==
    last_call.op = "exec_signal" =>
        /\ Len(last_call.trades) <= Len(me_trades)
        /\ SubSeq(me_trades, Len(me_trades) - Len(last_call.trades) + 1, Len(me_trades))
              = last_call.trades

\* the counter component of the order_id of the k-th recorded order
CounterOf(k) == orders[results.orders[k]].order_id[1]

\* C23: the orders the engine has created since the last reset carry strictly
\* increasing counter components, in the order of their creation, whether or
\* not signals were rejected in between; so no two of them share an order_id.
C23_OrderIds ==
    /\ \A i, j \in DOMAIN results.orders : i < j => CounterOf(i) < CounterOf(j)
    /\ \A i, j \in DOMAIN results.orders :
          i # j => orders[results.orders[i]].order_id # orders[results.orders[j]].order_id

\* two orders were created with a rejected signal between them
C23_Witness ==
    \E i \in DOMAIN results.orders :
        /\ i + 1 \in DOMAIN results.orders
        /\ CounterOf(i + 1) > CounterOf(i) + 1

\* the orders resting in the book
BookOrders ==
    UNION {{orders[order_book[side][k]] : k \in DOMAIN order_book[side]} :
              side \in {"buy", "sell"}}

\* C25: after every add_order every order in the book has filled_volume <
\* volume, and every order in the book with filled_volume > 0, incoming or
\* resting, has status partially_filled.
C25_BookFillStatus ==
    \A o \in BookOrders :
        /\ o.filled_volume < o.volume
        /\ o.filled_volume > 0 => o.status = "partially_filled"

\* C30: in every trade add_order produces, the incoming order and the resting
\* order it was matched with have the same symbol.
C30_SameSymbol ==
    last_call.op = "add_order" =>
        \A k \in DOMAIN last_call.matched :
            orders[last_call.matched[k]].symbol = orders[last_call.order].symbol

\* the total filled_volume of the recorded orders k.. for a symbol and a side
RECURSIVE FilledVolume(_, _, _)
FilledVolume(symbol, action, k) ==
    IF k > Len(results.orders) THEN 0
    ELSE LET o == orders[results.orders[k]]
         IN  (IF o.symbol = symbol /\ o.action = action THEN o.filled_volume ELSE 0)
                 + FilledVolume(symbol, action, k + 1)

\* the volume the account holds of a symbol
Held(symbol) ==
    IF symbol \in DOMAIN account.positions THEN account.positions[symbol].volume ELSE 0

\* C28: at the end of every bar the position volume of each symbol is the
\* total filled_volume of the orders that bought it minus the total
\* filled_volume of the orders that sold it, over all submitted orders,
\* orders filled while resting in the book included.
C28_PositionConsistency ==
    last_call.op = "mark_to_market" =>
        \A symbol \in Symbols :
            Held(symbol) = FilledVolume(symbol, "buy", 1) - FilledVolume(symbol, "sell", 1)

\* C29: the cash of the account is never negative: a buy the funds check of
\* create_order has admitted is debited no more than the cash it was checked
\* against.
C29_CashNotNegative == account.cash >= 0

\* C21: a metric computation on a history of no sample, or of one sample (so
\* that there is no return), does not raise and leaves an empty or all-zero
\* metrics object.
C21_DegenerateHistory ==
    (/\ last_call.op \in {"calculate_performance_metrics", "analyze"}
     /\ Len(results.account_history) <= 1)
        => /\ ~last_call.out.raised
           /\ \/ last_call.out.empty
              \/ (last_call.out.total_return = 0 /\ last_call.out.max_drawdown = 0)

\* the largest peak-to-trough decline of e_1..e_k in percent, the first
\* sample counted as a peak
RECURSIVE PeakToTrough(_, _)
PeakToTrough(equity, k) ==
    LET peak == ExpandingMax(equity, k)
        here == RatScale(RatDiv(RatSub(equity[k], peak), peak), 100)
    IN  IF k = 1 THEN here ELSE RatMin(PeakToTrough(equity, k - 1), here)

\* C22: for an equity sequence of two or more samples the reported
\* max_drawdown is the largest peak-to-trough decline in percent, min over t
\* of (e_t - max_{s<=t} e_s) / max_{s<=t} e_s, with e_0 a candidate peak.
C22_MaxDrawdown ==
    (/\ last_call.op \in {"calculate_performance_metrics", "analyze"}
     /\ Len(results.account_history) >= 2)
        => /\ ~last_call.out.raised
           /\ ~last_call.out.empty
           /\ last_call.out.max_drawdown
                 = Round2(PeakToTrough(EquityColumn(results.account_history),
                                       Len(results.account_history)))

\* C26: under BacktestEngine.run() the SimpleMAStrategy returns a sell signal
\* on a death-cross bar whenever the account holds a position of the bar's
\* symbol, bought on an earlier golden cross.
C26_DeathCrossSell ==
    (/\ last_call.op = "bar_begin"
     /\ ma_cross(data.close, status.current_step + 1) = 0 - 1
     /\ BarSymbol \in DOMAIN account.positions
     /\ account.positions[BarSymbol].volume > 0)
        => \E k \in DOMAIN pending : pending[k].action = "sell"

\* the connections waiting in the pool
Pooled == {db.pool[k] : k \in DOMAIN db.pool}

\* C24: after a statement of a transaction has failed and
\* rollback_transaction(conn) has been called, no row written in the
\* transaction is in the table later queries read, and the connection is
\* back in the pool.
C24_Rollback ==
    (db.last.op = "rollback_transaction" /\ db.last.failed) =>
        /\ db.table \cap db.last.written = {}
        /\ db.last.conn \in Pooled

\* C27: the connections of a pool that are open, idle in the queue or handed
\* out, are never more than max_connections.
C27_PoolBound == Cardinality(db.open) <= MaxConnections

====
